---- MODULE Spec2Model ----
(***************************************************************************)
(* Model of package stackdriver (core.go): a zapcore.Core decorator that   *)
(* folds the reserved context fields of a log call into a Context, renders *)
(* the remaining fields into the message text and forwards the entry to    *)
(* the wrapped core.                                                       *)
(*                                                                         *)
(* Go strings are sequences of text atoms (<<>> is ""), Go pointers are    *)
(* sequences of length <= 1 (<<>> is nil) or heap addresses (0 is nil).    *)
(***************************************************************************)
EXTENDS Integers, Sequences, FiniteSets, TLC

VARIABLES
    nodes,       \* the *Core values built so far: nodes[1] is the root logger
    ctxHeap,     \* the *Context objects the cores point to, by address
    callerArr,   \* the caller-owned backing array of the []zapcore.Field arguments
    calls,       \* the Write calls the cores received, in order
    downstream,  \* the Write calls the wrapped core received, in order
    last,        \* the inputs and the outcome of the latest With or Write
    rend,        \* one fieldValueToString call: constructor arguments, field, result
    part         \* one extractCtx call: field list, base context, result

vars == <<nodes, ctxHeap, callerArr, calls, downstream, last, rend, part>>

----------------------------------------------------------------------------
\* Bounds of the model.

\* How many cores (the root and the ones With derives) a behaviour of the
\* logger tree builds.
MaxNodes == 3
\* How many cores a behaviour derives from the root when every kind of call
\* is written through them.
MaxDerived == 1
\* How many Write calls a behaviour makes.
MaxWrites == 2
\* The longest field list extractCtx is applied to on its own.
MaxFields == 3
\* The width in bits of Field.Integer (int64 in Go), scaled down so that every
\* value fits TLC's integers; the narrower integer kinds scale with it.
IntBits == 24

----------------------------------------------------------------------------
\* Keys (core.go:15-20) and the key of the merged context field (core.go:80).

logKeyServiceContext == "serviceContext"
logKeyContextHTTPRequest == "context.httpRequest"
logKeyContextUser == "context.user"
logKeyContextReportLocation == "context.reportLocation"
contextKey == "context"

----------------------------------------------------------------------------
\* zapcore.Field and the zap constructors the package and its callers use.

RECURSIVE Pow2(_)
Pow2(n) == IF n = 0 THEN 1 ELSE 2 * Pow2(n - 1)

\* The interface{} payload of a field: its dynamic type and what it holds.
\* obj names an opaque object, loc is a *ReportLocation, ctx a *Context.
Iface(dyn, obj, loc, ctx) == [dyn |-> dyn, obj |-> obj, loc |-> loc, ctx |-> ctx]
NilIface == Iface("nil", "", <<>>, <<>>)

Field(key, type, int, str, iface) ==
    [Key |-> key, Type |-> type, Integer |-> int, String |-> str, Interface |-> iface]

\* int64(v) of an unsigned v that fills the whole width of Field.Integer.
ToInt64(v) == IF v >= Pow2(IntBits - 1) THEN v - Pow2(IntBits) ELSE v

\* The width of each integer kind, in the scale of IntBits.
KindBits(type) ==
    CASE type \in {"Int64Type", "Uint64Type", "UintptrType"} -> IntBits
      [] type \in {"Int32Type", "Uint32Type"} -> IntBits \div 2
      [] type \in {"Int16Type", "Uint16Type"} -> IntBits \div 4
      [] OTHER -> IntBits \div 8

SignedKinds == {"Int64Type", "Int32Type", "Int16Type", "Int8Type"}
UnsignedKinds == {"Uint64Type", "Uint32Type", "Uint16Type", "Uint8Type", "UintptrType"}

\* zap.Int64 .. zap.Uintptr: Field{Key, Type, Integer: int64(val)}; the
\* conversion keeps a signed val and wraps an unsigned one.
zapInt(key, type, v) ==
    Field(key, type, IF type \in UnsignedKinds THEN ToInt64(v) ELSE v, <<>>, NilIface)
zapFloat(key, type, bits) == Field(key, type, bits, <<>>, NilIface)
zapAny(key, type, iface) == Field(key, type, 0, <<>>, iface)
zapBool(key, b) == Field(key, "BoolType", IF b THEN 1 ELSE 0, <<>>, NilIface)
zapDuration(key, ns) == Field(key, "DurationType", ns, <<>>, NilIface)
zapString(key, str) == Field(key, "StringType", 0, str, NilIface)
zapTime(key, ns) == Field(key, "TimeType", ns, <<>>, NilIface)
zapObject(key, iface) == Field(key, "ObjectMarshalerType", 0, <<>>, iface)

LogServiceContext(sc) == zapObject(logKeyServiceContext, Iface("*ServiceContext", sc, <<>>, <<>>))
LogHTTPRequest(req) == zapObject(logKeyContextHTTPRequest, Iface("*HTTPRequest", req, <<>>, <<>>))
LogUser(user) == zapString(logKeyContextUser, user)
LogReportLocation(loc) ==
    zapObject(logKeyContextReportLocation, Iface("*ReportLocation", "", loc, <<>>))

----------------------------------------------------------------------------
\* strconv.FormatInt(i, 10).

Digit(d) == <<"0", "1", "2", "3", "4", "5", "6", "7", "8", "9">>[d + 1]

RECURSIVE Digits(_)
Digits(n) == IF n < 10 THEN <<Digit(n)>> ELSE Digits(n \div 10) \o <<Digit(n % 10)>>

FormatInt(i) == IF i < 0 THEN <<"-">> \o Digits(-i) ELSE Digits(i)

\* Go's integer division truncates toward zero.
GoDiv(a, b) == IF a >= 0 THEN a \div b ELSE -((-a) \div b)

\* strconv.FormatFloat(f, 'e', 2, bits) on the sample values the model uses;
\* Field.Integer holds the index of the sample in place of its bit pattern.
FloatSamples == <<"0.00e+00", "1.50e+00", "-2.50e-01", "1.23e+03">>
FormatFloat(bits) == <<FloatSamples[bits]>>

\* The dynamic types of the model that implement fmt.Stringer and error, and
\* those whose method panics when called (a nil receiver, a faulty method).
StringerTypes == {"Stringer", "PanicStringer", "time.Time"}
ErrorTypes == {"error", "PanicError"}
PanicTypes == {"PanicStringer", "PanicError"}

Ok(s) == [panicked |-> FALSE, val |-> s]
Panic == [panicked |-> TRUE, val |-> <<>>]

\* The switch of fieldValueToString, before the deferred recover.
fieldValueSwitch(field) ==
    CASE field.Type = "BoolType" -> Ok(FormatInt(field.Integer))
      [] field.Type = "DurationType" -> Ok(FormatInt(GoDiv(field.Integer, 1000000)))
      [] field.Type \in {"Float64Type", "Float32Type"} -> Ok(FormatFloat(field.Integer))
      [] field.Type \in SignedKinds \cup UnsignedKinds -> Ok(FormatInt(field.Integer))
      [] field.Type = "StringType" -> Ok(field.String)
      [] field.Type = "TimeType" ->
            Ok(<<"time.Unix(0,">> \o FormatInt(field.Integer) \o <<")">>)
      [] field.Type = "TimeFullType" ->
            IF field.Interface.dyn = "time.Time"
            THEN Ok(<<field.Interface.obj>>) ELSE Panic
      [] field.Type = "StringerType" ->
            IF field.Interface.dyn \in StringerTypes \ PanicTypes
            THEN Ok(<<field.Interface.obj>>) ELSE Panic
      [] field.Type = "ErrorType" ->
            IF field.Interface.dyn \in ErrorTypes \ PanicTypes
            THEN Ok(<<field.Interface.obj>>) ELSE Panic
      [] OTHER -> Ok(<<>>)

\* The deferred function of fieldValueToString: a panic of the switch is
\* recovered and the unnamed string result is then its zero value.
recover(r) == IF r.panicked THEN Ok(<<>>) ELSE r

\* fieldValueToString without its deferred recover: the panic reaches the caller.
fieldValueToStringNoRecover(field) == fieldValueSwitch(field)

fieldValueToString(field) == recover(fieldValueSwitch(field))

----------------------------------------------------------------------------
\* Context and its Clone (context.go), ReportLocation, zapcore.Entry.

\* A Context: HTTPRequest names the request descriptor ("" is nil), User is a
\* string, ReportLocation a *ReportLocation.
Context(req, user, loc) == [HTTPRequest |-> req, User |-> user, ReportLocation |-> loc]
EmptyContext == Context("", <<>>, <<>>)

\* Context.Clone: a new Context with copies of the three slots.
Clone(ctx) == Context(ctx.HTTPRequest, ctx.User, ctx.ReportLocation)

\* runtime.FuncForPC: nil for an address the runtime cannot resolve (0 here).
FuncForPC(pc) == IF pc = 0 THEN <<>> ELSE <<"main.handler">>

\* getReportLocationFromEntry that forgets to test SetReportLocation.
getReportLocationIgnoringFlag(c, entry) ==
    IF ~entry.Caller.Defined THEN <<>>
    ELSE <<[FilePath |-> entry.Caller.File, LineNumber |-> entry.Caller.Line,
            FunctionName |-> IF FuncForPC(entry.Caller.PC) # <<>>
                             THEN FuncForPC(entry.Caller.PC)[1] ELSE ""]>>

getReportLocationFromEntry(c, entry) ==
    IF ~c.SetReportLocation THEN <<>>
    ELSE IF ~entry.Caller.Defined THEN <<>>
    ELSE <<[FilePath |-> entry.Caller.File, LineNumber |-> entry.Caller.Line,
            FunctionName |-> IF FuncForPC(entry.Caller.PC) # <<>>
                             THEN FuncForPC(entry.Caller.PC)[1] ELSE ""]>>

----------------------------------------------------------------------------
\* cloneCtx and extractCtx.  A result carries the heap after the call.

Alloc(heap, ctx) == [addr |-> Len(heap) + 1, heap |-> Append(heap, ctx)]

\* cloneCtx that hands out the receiver's own Context instead of a copy.
cloneCtxShared(c, heap) ==
    IF c.ctx = 0 THEN Alloc(heap, EmptyContext) ELSE [addr |-> c.ctx, heap |-> heap]

cloneCtx(c, heap) ==
    IF c.ctx = 0 THEN Alloc(heap, EmptyContext) ELSE Alloc(heap, Clone(heap[c.ctx]))

\* The loop body of extractCtx with the first value of a slot kept.
extractFieldFirstWins(s, addr, f) ==
    CASE f.Key = logKeyContextHTTPRequest ->
            IF f.Interface.dyn # "*HTTPRequest" THEN [s EXCEPT !.panicked = TRUE]
            ELSE IF s.heap[addr].HTTPRequest # "" THEN s
            ELSE [s EXCEPT !.heap[addr].HTTPRequest = f.Interface.obj]
      [] f.Key = logKeyContextReportLocation ->
            IF f.Interface.dyn # "*ReportLocation" THEN [s EXCEPT !.panicked = TRUE]
            ELSE IF s.heap[addr].ReportLocation # <<>> THEN s
            ELSE [s EXCEPT !.heap[addr].ReportLocation = f.Interface.loc]
      [] f.Key = logKeyContextUser ->
            IF s.heap[addr].User # <<>> THEN s
            ELSE [s EXCEPT !.heap[addr].User = f.String]
      [] OTHER -> [s EXCEPT !.output = Append(s.output, f)]

\* The loop body of extractCtx with the user read by a type assertion on
\* the payload, as the other two slots are.
extractFieldAssertUser(s, addr, f) ==
    CASE f.Key = logKeyContextHTTPRequest ->
            IF f.Interface.dyn = "*HTTPRequest"
            THEN [s EXCEPT !.heap[addr].HTTPRequest = f.Interface.obj]
            ELSE [s EXCEPT !.panicked = TRUE]
      [] f.Key = logKeyContextReportLocation ->
            IF f.Interface.dyn = "*ReportLocation"
            THEN [s EXCEPT !.heap[addr].ReportLocation = f.Interface.loc]
            ELSE [s EXCEPT !.panicked = TRUE]
      [] f.Key = logKeyContextUser ->
            IF f.Interface.dyn = "string"
            THEN [s EXCEPT !.heap[addr].User = <<f.Interface.obj>>]
            ELSE [s EXCEPT !.panicked = TRUE]
      [] OTHER -> [s EXCEPT !.output = Append(s.output, f)]

\* The loop body of extractCtx (the switch on f.Key): a type assertion on a
\* payload of another dynamic type panics.
extractField(s, addr, f) ==
    CASE f.Key = logKeyContextHTTPRequest ->
            IF f.Interface.dyn = "*HTTPRequest"
            THEN [s EXCEPT !.heap[addr].HTTPRequest = f.Interface.obj]
            ELSE [s EXCEPT !.panicked = TRUE]
      [] f.Key = logKeyContextReportLocation ->
            IF f.Interface.dyn = "*ReportLocation"
            THEN [s EXCEPT !.heap[addr].ReportLocation = f.Interface.loc]
            ELSE [s EXCEPT !.panicked = TRUE]
      [] f.Key = logKeyContextUser -> [s EXCEPT !.heap[addr].User = f.String]
      [] OTHER -> [s EXCEPT !.output = Append(s.output, f)]

\* The range loop of extractCtx from field i on; a panic ends it.
RECURSIVE extractLoop(_, _, _, _)
extractLoop(fields, i, s, addr) ==
    IF i > Len(fields) \/ s.panicked THEN s
    ELSE extractLoop(fields, i + 1, extractField(s, addr, fields[i]), addr)

\* What extractCtx hands back (nothing, when it panicked): the ordinary
\* fields and the address of the merged Context.
extractResult(s, addr) ==
    [output |-> s.output, ctx |-> addr, heap |-> s.heap, panicked |-> s.panicked]

extractInto(fields, cl) ==
    extractResult(extractLoop(fields, 1,
                              [output |-> <<>>, heap |-> cl.heap, panicked |-> FALSE],
                              cl.addr),
                  cl.addr)

extractCtx(c, fields, heap) == extractInto(fields, cloneCtx(c, heap))
----------------------------------------------------------------------------
\* appendFields: the message followed by " key=value" for every field whose
\* key is not "context".  A panic of fieldValueToString would pass through.

\* The four WriteString calls of one field, v being its rendered value.
writeField(builder, key, v) ==
    IF v.panicked THEN Panic ELSE Ok(builder.val \o <<" ", key, "=">> \o v.val)

RECURSIVE appendLoop(_, _, _)
appendLoop(builder, fields, i) ==
    IF i > Len(fields) \/ builder.panicked THEN builder
    ELSE IF fields[i].Key = contextKey THEN appendLoop(builder, fields, i + 1)
    ELSE appendLoop(writeField(builder, fields[i].Key, fieldValueToString(fields[i])),
                    fields, i + 1)

appendFields(str, fields) == appendLoop(Ok(str), fields, 1)

----------------------------------------------------------------------------
\* The calls of Write, one definition per statement.

\* The builtin append on the slice callerArr[0:len:cap]: in place when the
\* slice has spare capacity, into a fresh array otherwise.
append(arr, len, cap, x) ==
    [arr |-> IF len < cap THEN [arr EXCEPT ![len + 1] = x] ELSE arr,
     fields |-> Append(SubSeq(arr, 1, len), x)]

\* core.go:75-77: fields after the optional report-location field.
appendLocation(loc, arr, len, cap) ==
    IF loc # <<>> THEN append(arr, len, cap, LogReportLocation(loc))
    ELSE [arr |-> arr, fields |-> SubSeq(arr, 1, len)]

\* core.go:73-77.
withLocation(c, entry, arr, len, cap) ==
    appendLocation(getReportLocationFromEntry(c, entry), arr, len, cap)

\* core.go:80 with the context appended to the fields Write was given.
withContextUnpartitioned(given, output, ctx) ==
    Append(given, zapObject(contextKey, Iface("*Context", "", <<>>, <<ctx>>)))

\* core.go:80: the ordinary fields followed by the merged context field.
withContext(given, output, ctx) ==
    Append(output, zapObject(contextKey, Iface("*Context", "", <<>>, <<ctx>>)))

\* core.go:84 with a failed downstream write tried once more.
coreWriteRetry(log, entry, fields, err) ==
    [log |-> IF err = "nil" THEN Append(log, [Time |-> entry.Time, ret |-> err])
             ELSE log \o <<[Time |-> entry.Time, ret |-> err],
                           [Time |-> entry.Time, ret |-> err]>>,
     fwd |-> <<[entry |-> entry, fields |-> fields]>>, ret |-> err]

\* core.go:84: c.Core.Write(entry, fields), whose result err Write returns.
\* The wrapped core's log keeps the time stamp of each entry it received.
coreWrite(log, entry, fields, err) ==
    [log |-> Append(log, [Time |-> entry.Time, ret |-> err]),
     fwd |-> <<[entry |-> entry, fields |-> fields]>>, ret |-> err]

\* c.Core.With(fields) of the wrapped core: it binds the fields.
coreWith(core, fields) == core \o fields

\* The Context a core points to, as a pointer value.
CtxOf(c, heap) == IF c.ctx = 0 THEN <<>> ELSE <<heap[c.ctx]>>


\* The caller metadata of an entry: none, or a call site, one the runtime
\* resolves to a function in Callers and one it does not in TreeCallers.
NoCaller == [Defined |-> FALSE, File |-> "", Line |-> 0, PC |-> 0]
Callers == {NoCaller, [Defined |-> TRUE, File |-> "main.go", Line |-> 10, PC |-> 1]}
TreeCallers == {NoCaller, [Defined |-> TRUE, File |-> "lib.go", Line |-> 42, PC |-> 0]}

\* A report location a caller builds by hand.
HandLocation == [FilePath |-> "job.go", LineNumber |-> 7, FunctionName |-> "main.job"]

\* The backing arrays of the callers: context fields, ordinary fields, an
\* ordinary field keyed "context" and a request field built with the wrong
\* constructor.  A call passes a prefix callerArr[0:len] of its array.
CallerArrays ==
    {<<LogUser(<<"alice">>), zapInt("retries", "Int32Type", 3)>>,
     <<zapString(contextKey, <<"x">>), LogHTTPRequest("req1")>>,
     <<zapInt("retries", "Int32Type", 3), zapString(logKeyContextHTTPRequest, <<"oops">>)>>,
     <<LogReportLocation(<<HandLocation>>), LogUser(<<"bob">>)>>}

NoEntry == [Message |-> <<>>, Time |-> 0, Caller |-> NoCaller]

Record(op, n, panicked, len, cap, entry, exIn, out, ctx, fwd, ret) ==
    [op |-> op, node |-> n, panicked |-> panicked, len |-> len, cap |-> cap,
     fields |-> SubSeq(callerArr, 1, len), arrBefore |-> callerArr,
     entry |-> entry, callerEntry |-> entry,
     ctxBefore |-> IF n = 0 THEN <<>> ELSE CtxOf(nodes[n], ctxHeap),
     exIn |-> exIn, out |-> out, ctx |-> ctx, fwd |-> fwd, ret |-> ret]

----------------------------------------------------------------------------
\* The logger tree.

NoCall == Record("none", 0, FALSE, 0, 0, NoEntry, <<>>, <<>>, EmptyContext, <<>>, "nil")

Root(flag) == [Core |-> <<>>, SetReportLocation |-> flag, ctx |-> 0, parent |-> 0]

Init ==
    /\ \E flag \in BOOLEAN : nodes = <<Root(flag)>>
    /\ ctxHeap = <<>>
    /\ callerArr \in CallerArrays
    /\ calls = <<>>
    /\ downstream = <<>>
    /\ last = NoCall
    /\ rend = <<>>
    /\ part = <<>>

\* nodes[n].With(callerArr[0:len]).  A panic of extractCtx leaves no core.
With(n, len) ==
    \E ex \in {extractCtx(nodes[n], SubSeq(callerArr, 1, len), ctxHeap)} :
       /\ nodes' = IF ex.panicked THEN nodes
                   ELSE Append(nodes, [Core |-> coreWith(nodes[n].Core, ex.output),
                                       SetReportLocation |-> nodes[n].SetReportLocation,
                                       ctx |-> ex.ctx, parent |-> n])
       /\ ctxHeap' = IF ex.panicked THEN SubSeq(ex.heap, 1, Len(ctxHeap)) ELSE ex.heap
       /\ last' = Record("With", n, ex.panicked, len, len, NoEntry,
                         SubSeq(callerArr, 1, len), ex.output, ex.heap[ex.ctx], <<>>,
                         IF ex.panicked THEN "panic" ELSE "nil")
       /\ UNCHANGED <<callerArr, calls, downstream, rend, part>>

\* nodes[n].Write(entry, callerArr[0:len]) with err the result of the wrapped
\* core's Write.  The Context of the call is garbage once it returns.
Write(n, entry, len, err) ==
    \E cap \in {Len(callerArr)} :
    \E ap \in {withLocation(nodes[n], entry, callerArr, len, cap)} :
    \E ex \in {extractCtx(nodes[n], ap.fields, ctxHeap)} :
    \E fields \in {withContext(ap.fields, ex.output, ex.heap[ex.ctx])} :
    \E msg \in {appendFields(entry.Message, fields)} :
    \E cw \in {coreWrite(downstream, [entry EXCEPT !.Message = msg.val], fields, err)} :
    \E panicked \in {ex.panicked \/ msg.panicked} :
       /\ Len(calls) < MaxWrites
       /\ callerArr' = ap.arr
       /\ ctxHeap' = SubSeq(ex.heap, 1, Len(ctxHeap))
       /\ calls' = Append(calls, [Time |-> entry.Time, returned |-> ~panicked,
                                  ret |-> IF panicked THEN "panic" ELSE cw.ret])
       /\ downstream' = IF panicked THEN downstream ELSE cw.log
       /\ last' = Record("Write", n, panicked, len, cap, entry, ap.fields, ex.output,
                         ex.heap[ex.ctx], IF panicked THEN <<>> ELSE cw.fwd,
                         IF panicked THEN "panic" ELSE cw.ret)
       /\ UNCHANGED <<nodes, rend, part>>

Entry(caller) == [Message |-> <<"msg">>, Time |-> Len(calls) + 1, Caller |-> caller]

Next ==
    \/ \E n \in 1..Len(nodes), len \in 0..Len(callerArr) :
         Len(nodes) <= MaxDerived /\ With(n, len)
    \/ \E n \in 1..Len(nodes), c \in Callers, len \in 0..Len(callerArr),
          err \in {"nil", "write failed"} :
         Write(n, Entry(c), len, err)

Spec == Init /\ [][Next]_vars

----------------------------------------------------------------------------
\* The logger tree on its own: cores derived from cores, each binding a user
\* or none, and writes through them that the wrapped core accepts.

InitTree ==
    /\ \E flag \in BOOLEAN : nodes = <<Root(flag)>>
    /\ ctxHeap = <<>>
    /\ callerArr = <<LogUser(<<"alice">>), LogUser(<<"bob">>)>>
    /\ calls = <<>>
    /\ downstream = <<>>
    /\ last = NoCall
    /\ rend = <<>>
    /\ part = <<>>

NextTree ==
    \/ \E n \in 1..Len(nodes), len \in 0..Len(callerArr) :
         Len(nodes) < MaxNodes /\ With(n, len)
    \/ \E n \in 1..Len(nodes), c \in TreeCallers, len \in 0..Len(callerArr) :
         Write(n, Entry(c), len, "nil")

SpecTree == InitTree /\ [][NextTree]_vars

----------------------------------------------------------------------------
\* fieldValueToString on its own: one field of every kind per behaviour.

\* The values an integer field of the kind is built from: the ends of its
\* range, the ends of the signed half of it, and small values.
IntValues(type) ==
    IF type \in SignedKinds
    THEN {-Pow2(KindBits(type) - 1), -1, 0, 1, Pow2(KindBits(type) - 1) - 1}
    ELSE {0, 1, Pow2(KindBits(type) - 1) - 1, Pow2(KindBits(type) - 1),
          Pow2(KindBits(type)) - 1}

Payloads == {NilIface, Iface("Stringer", "s1", <<>>, <<>>),
             Iface("PanicStringer", "s2", <<>>, <<>>), Iface("time.Time", "t1", <<>>, <<>>),
             Iface("error", "e1", <<>>, <<>>), Iface("PanicError", "e2", <<>>, <<>>)}

StructuralKinds == {"ArrayMarshalerType", "ObjectMarshalerType", "BinaryType",
                    "ByteStringType", "Complex128Type", "Complex64Type", "ReflectType",
                    "NamespaceType", "SkipType", "InlineMarshalerType"}

Built(type, v, field) == [ctor |-> type, v |-> v, field |-> field]

RenderInputs ==
    UNION {{Built(t, v, zapInt("k", t, v)) : v \in IntValues(t)} :
                t \in SignedKinds \cup UnsignedKinds}
    \cup {Built("BoolType", 0, zapBool("k", b)) : b \in BOOLEAN}
    \cup {Built("DurationType", ns, zapDuration("k", ns)) :
            ns \in {0, 999999, 1500000, 2000000, -1500000}}
    \cup {Built(t, b, zapFloat("k", t, b)) : t \in {"Float64Type", "Float32Type"},
                                             b \in 1..Len(FloatSamples)}
    \cup {Built("StringType", 0, zapString("k", str)) : str \in {<<>>, <<"alice">>}}
    \cup {Built("TimeType", ns, zapTime("k", ns)) : ns \in {0, 1500000}}
    \cup {Built(t, 0, zapAny("k", t, i)) : t \in {"TimeFullType", "StringerType", "ErrorType"},
                                           i \in Payloads}
    \cup {Built(t, 0, zapAny("k", t, i)) : t \in StructuralKinds,
                                           i \in {NilIface, Iface("object", "o1", <<>>, <<>>)}}

InitRender ==
    /\ nodes = <<>> /\ ctxHeap = <<>> /\ callerArr = <<>>
    /\ calls = <<>> /\ downstream = <<>> /\ last = <<>> /\ part = <<>>
    /\ \E in \in RenderInputs :
         rend = [ctor |-> in.ctor, v |-> in.v, field |-> in.field, done |-> FALSE,
                 out |-> Ok(<<>>)]

Render ==
    /\ ~rend.done
    /\ rend' = [rend EXCEPT !.done = TRUE, !.out = fieldValueToString(rend.field)]
    /\ UNCHANGED <<nodes, ctxHeap, callerArr, calls, downstream, last, part>>

NextRender == Render

SpecRender == InitRender /\ [][NextRender]_vars

----------------------------------------------------------------------------
\* extractCtx on its own: one field list and one base context per behaviour.

PartFields == {LogUser(<<"alice">>), LogUser(<<"bob">>), LogHTTPRequest("req1"),
               LogHTTPRequest("req2"), LogReportLocation(<<HandLocation>>),
               zapInt("retries", "Int32Type", 3), LogServiceContext("svc"),
               zapString(logKeyContextHTTPRequest, <<"oops">>)}

RECURSIVE Lists(_, _)
Lists(S, n) ==
    IF n = 0 THEN {<<>>}
    ELSE Lists(S, n - 1) \cup {Append(l, f) : l \in {m \in Lists(S, n - 1) : Len(m) = n - 1},
                                              f \in S}

\* The context of the receiver: none (the root), or one a With built.
BaseContexts == {<<>>, <<EmptyContext>>,
                 <<Context("req0", <<"carol">>,
                           <<[FilePath |-> "base.go", LineNumber |-> 1,
                              FunctionName |-> "main.base"]>>)>>}

InitPartition ==
    /\ nodes = <<>> /\ ctxHeap = <<>> /\ callerArr = <<>>
    /\ calls = <<>> /\ downstream = <<>> /\ last = <<>> /\ rend = <<>>
    /\ \E fields \in Lists(PartFields, MaxFields), base \in BaseContexts :
         part = [fields |-> fields, base |-> base, done |-> FALSE, panicked |-> FALSE,
                 output |-> <<>>, ctx |-> EmptyContext, baseAfter |-> base]

\* c.extractCtx(part.fields) for a core c whose ctx is part.base.
Partition ==
    \E ex \in {extractCtx([ctx |-> Len(part.base)], part.fields, part.base)} :
       /\ ~part.done
       /\ part' = [part EXCEPT !.done = TRUE, !.panicked = ex.panicked,
                               !.output = ex.output, !.ctx = ex.heap[ex.ctx],
                               !.baseAfter = SubSeq(ex.heap, 1, Len(part.base))]
       /\ UNCHANGED <<nodes, ctxHeap, callerArr, calls, downstream, last, rend>>

NextPartition == Partition

SpecPartition == InitPartition /\ [][NextPartition]_vars
----------------------------------------------------------------------------
\* What the claims speak of.

ReservedKeys == {logKeyContextHTTPRequest, logKeyContextUser, logKeyContextReportLocation}

IsOrdinary(f) == f.Key \notin ReservedKeys

\* The index of the last field of the list with the key, 0 when it has none.
LastWith(fields, key) ==
    IF \E i \in 1..Len(fields) : fields[i].Key = key
    THEN CHOOSE i \in 1..Len(fields) :
            /\ fields[i].Key = key
            /\ \A j \in (i + 1)..Len(fields) : fields[j].Key # key
    ELSE 0

BaseOf(ptr) == IF ptr = <<>> THEN EmptyContext ELSE ptr[1]

\* Last-write-wins: each slot holds the value of the last field with its key,
\* or the value of the base context when the list has no such field.
Merged(ptr, fields) ==
    Context(IF LastWith(fields, logKeyContextHTTPRequest) = 0 THEN BaseOf(ptr).HTTPRequest
            ELSE fields[LastWith(fields, logKeyContextHTTPRequest)].Interface.obj,
            IF LastWith(fields, logKeyContextUser) = 0 THEN BaseOf(ptr).User
            ELSE fields[LastWith(fields, logKeyContextUser)].String,
            IF LastWith(fields, logKeyContextReportLocation) = 0
            THEN BaseOf(ptr).ReportLocation
            ELSE fields[LastWith(fields, logKeyContextReportLocation)].Interface.loc)

\* A reserved-key field whose payload is not of the type its slot holds.
Misshaped(f) ==
    \/ f.Key = logKeyContextHTTPRequest /\ f.Interface.dyn # "*HTTPRequest"
    \/ f.Key = logKeyContextReportLocation /\ f.Interface.dyn # "*ReportLocation"

WellShaped(fields) == \A i \in 1..Len(fields) : ~Misshaped(fields[i])

\* The latest call was a Write that reached the wrapped core.
Forwarded == last.op = "Write" /\ last.fwd # <<>>
FwdFields == last.fwd[1].fields
FwdEntry == last.fwd[1].entry
FwdContext == FwdFields[Len(FwdFields)].Interface.ctx[1]

\* The location the latest Write captured, as the field it appends.
Injected ==
    IF nodes[last.node].SetReportLocation /\ last.entry.Caller.Defined
    THEN <<last.exIn[Len(last.exIn)]>> ELSE <<>>

CountKey(fields, key) == Cardinality({i \in 1..Len(fields) : fields[i].Key = key})

\* A step leaves every existing core and the context it points to as they were.
C1_Frame ==
    \A n \in 1..Len(nodes) :
        /\ nodes'[n] = nodes[n]
        /\ CtxOf(nodes'[n], ctxHeap') = CtxOf(nodes[n], ctxHeap)

\* A write through a core that has a sibling with another user forwards the
\* user of its own call or, when the call names none, the user of its own
\* core, which is not the sibling's.
C1_Siblings ==
    Forwarded =>
        \A b \in 1..Len(nodes) :
            ( /\ b # last.node
              /\ nodes[b].parent = nodes[last.node].parent
              /\ nodes[b].parent # 0
              /\ BaseOf(CtxOf(nodes[b], ctxHeap)).User
                    # BaseOf(CtxOf(nodes[last.node], ctxHeap)).User )
            => /\ FwdContext.User = Merged(CtxOf(nodes[last.node], ctxHeap), last.fields).User
               /\ LastWith(last.fields, logKeyContextUser) = 0
                    => /\ FwdContext.User = BaseOf(CtxOf(nodes[last.node], ctxHeap)).User
                       /\ FwdContext.User # BaseOf(CtxOf(nodes[b], ctxHeap)).User

\* C1: With (and Write) leave the receiver, every core derived before and
\* their contexts unchanged, and of two siblings with different users each
\* forwards its own user in its writes, never the other's.
C1_DeriveIsolated == [][C1_Frame]_vars /\ []C1_Siblings

\* Two siblings bound to alice and bob, and a write through alice's core.
C1_Witness ==
    /\ Forwarded
    /\ LastWith(last.fields, logKeyContextUser) = 0
    /\ \E b \in 1..Len(nodes) :
          /\ b # last.node
          /\ nodes[b].parent = nodes[last.node].parent
          /\ nodes[b].parent # 0
          /\ BaseOf(CtxOf(nodes[b], ctxHeap)).User = <<"bob">>
          /\ BaseOf(CtxOf(nodes[last.node], ctxHeap)).User = <<"alice">>
          /\ FwdContext.User = <<"alice">>

\* C2: when extractCtx returns, its ordinary fields are the fields of the
\* list whose key is not reserved, in their order, and each slot of its
\* context holds the value of the last field with the slot's key, or the base
\* context's value when the list has none.
C2_Partition ==
    (part.done /\ ~part.panicked) =>
        /\ \A i \in 1..Len(part.output) : part.output[i].Key \notin ReservedKeys
        /\ part.output = SelectSeq(part.fields, IsOrdinary)
        /\ part.ctx = Merged(part.base, part.fields)

\* Two user fields of different values and an ordinary field on a full base.
C2_Witness ==
    /\ part.done /\ ~part.panicked
    /\ part.base # <<>>
    /\ \E i, j \in 1..Len(part.fields) :
          /\ i < j
          /\ part.fields[i].Key = logKeyContextUser
          /\ part.fields[j].Key = logKeyContextUser
          /\ part.fields[i].String # part.fields[j].String
          /\ part.ctx.User = part.fields[j].String
    /\ Len(part.output) = 1
    /\ part.ctx.HTTPRequest = part.base[1].HTTPRequest

\* C3 as stated: the forwarded list is the ordinary fields of the call
\* followed by the context field, and exactly one of its fields is keyed
\* "context".
C3_ExactlyOneContextKey ==
    Forwarded =>
        /\ SubSeq(FwdFields, 1, Len(FwdFields) - 1) = SelectSeq(last.fields, IsOrdinary)
        /\ CountKey(FwdFields, contextKey) = 1

\* C3 as amended: the forwarded list is the ordinary fields of the call, in
\* order, followed by one field keyed "context" that carries the merged
\* context alone; the fields keyed "context" are that one and the ordinary
\* fields of the call with that key.
C3_ForwardedFields ==
    Forwarded =>
        /\ SubSeq(FwdFields, 1, Len(FwdFields) - 1) = SelectSeq(last.fields, IsOrdinary)
        /\ FwdFields[Len(FwdFields)] =
              zapObject(contextKey,
                        Iface("*Context", "", <<>>,
                              <<Merged(last.ctxBefore, last.fields \o Injected)>>))
        /\ CountKey(FwdFields, contextKey) = 1 + CountKey(last.fields, contextKey)

\* [user("alice"), retries=3] through a core without context.
C3_Witness ==
    /\ Forwarded
    /\ last.ctxBefore = <<>>
    /\ last.fields = <<LogUser(<<"alice">>), zapInt("retries", "Int32Type", 3)>>
    /\ Injected = <<>>
    /\ FwdFields = <<zapInt("retries", "Int32Type", 3),
                     zapObject(contextKey,
                               Iface("*Context", "", <<>>,
                                     <<Context("", <<"alice">>, <<>>)>>))>>

\* " key=value" for every field of the list from i on, value as rendered.
RECURSIVE Inline(_, _)
Inline(fields, i) ==
    IF i > Len(fields) THEN <<>>
    ELSE <<" ", fields[i].Key, "=">> \o fieldValueToString(fields[i]).val
         \o Inline(fields, i + 1)

\* C4: the forwarded message is the message of the call followed by
\* " key=value" for every ordinary field of the call, none skipped.
C4_MessageRendersEveryOrdinary ==
    Forwarded =>
        FwdEntry.Message = last.entry.Message \o Inline(SelectSeq(last.fields, IsOrdinary), 1)

\* C5: after a Write the caller's backing array, the caller's entry and the
\* context of the core are what they were before it.
C5_CallerDataUntouched ==
    last.op = "Write" =>
        /\ callerArr = last.arrBefore
        /\ last.callerEntry = last.entry
        /\ CtxOf(nodes[last.node], ctxHeap) = last.ctxBefore

\* C6 as stated: extractCtx returns normally whatever the fields, from With
\* and from Write.
C6_NeverFails == last.op \in {"With", "Write"} => ~last.panicked

\* C6 as amended: extractCtx returns normally exactly when no field keyed
\* context.httpRequest or context.reportLocation carries a payload of another
\* type than its slot's, whatever the other fields are, and it then passes
\* every field whose key is not reserved through as ordinary.
C6_FailsOnlyOnMisshaped ==
    last.op \in {"With", "Write"} =>
        /\ last.panicked <=> ~WellShaped(last.exIn)
        /\ ~last.panicked => last.out = SelectSeq(last.exIn, IsOrdinary)

\* A Write with a request field, a captured location and a field keyed
\* "context" that returned.
C6_Witness ==
    /\ last.op = "Write"
    /\ ~last.panicked
    /\ \E i \in 1..Len(last.exIn) : last.exIn[i].Key = logKeyContextHTTPRequest
    /\ \E i \in 1..Len(last.exIn) : last.exIn[i].Key = logKeyContextReportLocation
    /\ \E i \in 1..Len(last.out) : last.out[i].Key = contextKey

\* A stringer, error or full-time field whose payload has not the shape of
\* its kind, or whose method panics.
PayloadFault(f) ==
    \/ f.Type = "TimeFullType" /\ f.Interface.dyn # "time.Time"
    \/ f.Type = "StringerType" /\ f.Interface.dyn \notin {"Stringer", "time.Time"}
    \/ f.Type = "ErrorType" /\ f.Interface.dyn # "error"

\* C7: fieldValueToString returns a string for every field, and the empty
\* string for a field whose payload is at fault.
C7_RenderTotal ==
    rend.done =>
        /\ ~rend.out.panicked
        /\ PayloadFault(rend.field) => rend.out.val = <<>>

\* A stringer field without payload rendered as "".
C7_Witness ==
    /\ rend.done
    /\ rend.field.Type = "StringerType"
    /\ rend.field.Interface.dyn = "nil"
    /\ rend.out = Ok(<<>>)

Returned(call) == call.returned

\* C8: the wrapped core received one Write for each Write that returned, in
\* the order of the calls, a Write that panicked in between forwarded
\* nothing, and each Write returned what the wrapped core's Write returned.
C8_OneToOne ==
    /\ Len(downstream) = Len(SelectSeq(calls, Returned))
    /\ \A i \in 1..Len(downstream) :
          /\ downstream[i].Time = SelectSeq(calls, Returned)[i].Time
          /\ downstream[i].ret = SelectSeq(calls, Returned)[i].ret
    /\ Forwarded =>
          /\ FwdEntry.Time = last.entry.Time
          /\ downstream[Len(downstream)] = [Time |-> last.entry.Time, ret |-> last.ret]

\* Two writes, the first failed downstream, the second accepted.
C8_Witness ==
    /\ Len(downstream) = 2
    /\ downstream[1].ret = "write failed"
    /\ downstream[2].ret = "nil"
    /\ calls[1].ret = "write failed"
    /\ calls[2].ret = "nil"

\* C9: a Write through a core whose SetReportLocation is false appends no
\* report-location field, and the reportLocation it forwards is that of the
\* last such field of the call, or of the core's context.
C9_NoLocationWhenDisabled ==
    (last.op = "Write" /\ ~nodes[last.node].SetReportLocation) =>
        /\ last.exIn = last.fields
        /\ Forwarded =>
              FwdContext.ReportLocation = Merged(last.ctxBefore, last.fields).ReportLocation

\* A forwarded write with caller metadata through a core with the flag off.
C9_Witness ==
    /\ Forwarded
    /\ ~nodes[last.node].SetReportLocation
    /\ last.entry.Caller.Defined
    /\ FwdContext.ReportLocation = <<>>

\* C10: an integer field renders as the decimal string of the value it was
\* built from.
C10_IntegerDecimal ==
    (rend.done /\ rend.ctor \in SignedKinds \cup UnsignedKinds) =>
        rend.out.val = IF rend.v < 0 THEN <<"-">> \o Digits(-rend.v) ELSE Digits(rend.v)
====
